---- MODULE Spec2Model ----
(***************************************************************************)
(* kakeibo: the expense ledger (database.py, expenses.py) and the category *)
(* namespace (database.py, categories.py) over the SQLite store.           *)
(*                                                                         *)
(* Values that Python holds as "x or None" are sets of at most one         *)
(* element: None is {} and a value v is {v}.  A JSON body or a query       *)
(* string is a record holding only the keys that were sent.                *)
(***************************************************************************)
EXTENDS Integers, Sequences, FiniteSets, TLC

VARIABLES
    expenses,           \* rows of table expenses
    user_categories,    \* rows of table user_categories
    next_expense_id,    \* the rowid the next INSERT INTO expenses gets
    next_category_id,   \* the rowid the next INSERT INTO user_categories gets
    now,                \* the store's clock (CURRENT_TIMESTAMP)
    pc,                 \* per worker: where it is inside create_user_category
    job,                \* per worker: the request it is serving
    resp,               \* the last completed call and what it returned
    connections         \* store connections that are open (counted under SpecConn only)

vars ==
    <<expenses, user_categories, next_expense_id, next_category_id, now, pc, job, resp,
      connections>>

----------------------------------------------------------------------------
(* Bounds of the model *)

MaxExpenses == 2
MaxCategories == 2
MaxClock == 1
MaxConnections == 3

Users == {1, 2}
Workers == {1, 2}
ExpenseIds == 1..MaxExpenses
CategoryIds == 1..MaxCategories

----------------------------------------------------------------------------
(* Python values *)

None == {}
Some(v) == {v}
Val(o) == CHOOSE v \in o : TRUE
Get(data, k) == IF k \in DOMAIN data THEN data[k] ELSE None
TruthyInt(o) == o # None /\ o # Some(0)
TruthyStr(o) == o # None /\ o # Some("")
Max2(a, b) == IF a >= b THEN a ELSE b
Min2(a, b) == IF a <= b THEN a ELSE b

(* The strings of the model in SQLite's BINARY (bytewise) order. *)
StrOrder == <<"", "2024-01-01", "2024-01-03", "2024-01-05", "yesterday">>
StrRank(s) == CHOOSE i \in 1..Len(StrOrder) : StrOrder[i] = s
StrLeq(a, b) == StrRank(a) <= StrRank(b)
StrLess(a, b) == StrRank(a) < StrRank(b)

(* re.match(r'^\d{4}-\d{2}-\d{2}$', date) *)
DateShaped(s) == s \in {"2024-01-01", "2024-01-03", "2024-01-05"}

(* int(text) of a query-string value: the value, or ValueError (None here) *)
ParseInt(s) ==
    CASE s = "0" -> Some(0)
      [] s = "1" -> Some(1)
      [] s = "2" -> Some(2)
      [] s = "3" -> Some(3)
      [] OTHER -> None

(* A call with keyword arguments raises TypeError on an unexpected keyword. *)
UnexpectedKeyword(params, kwargs) == (DOMAIN kwargs) \ params # {}

----------------------------------------------------------------------------
(* The store *)

(* Category names are sequences of characters. *)
system_categories ==
    { [id |-> 1, name |-> <<"F", "O", "O", "D">>, display_name |-> <<"F", "o", "o", "d">>],
      [id |-> 2, name |-> <<"T", "A", "X", "I">>, display_name |-> <<"T", "a", "x", "i">>] }

(* UNIQUE(user_id, name) of table user_categories *)
UniqueViolation == "UNIQUE constraint failed: user_categories.user_id, user_categories.name"

UniqueConstraint(UC, user_id, name) ==
    IF \E c \in UC : c.user_id = user_id /\ c.name = name THEN UniqueViolation ELSE ""

(* get_db_connection never issues PRAGMA foreign_keys = ON *)
foreign_keys_on == TRUE

foreign_keys == FALSE

(* CHECK constraints of table expenses *)
CheckConstraint(row) ==
    IF ~(row.amount > 0) THEN "CHECK constraint failed: amount"
    ELSE IF row.type \notin {"expense", "income"} THEN "CHECK constraint failed: type"
    ELSE ""

ForeignKeyConstraint(UC, row) ==
    IF /\ foreign_keys
       /\ \/ row.user_id \notin Users
          \/ row.system_category_id \notin ({None} \cup {Some(c.id) : c \in system_categories})
          \/ row.user_category_id \notin ({None} \cup {Some(c.id) : c \in UC})
    THEN "FOREIGN KEY constraint failed"
    ELSE ""

(* A parent row that child rows reference cannot be deleted *)
ForeignKeyRestrict(E, hit) ==
    IF foreign_keys /\ \E e \in E, c \in hit : e.user_category_id = Some(c.id)
    THEN "FOREIGN KEY constraint failed"
    ELSE ""

IntegrityError(UC, row) ==
    IF CheckConstraint(row) # "" THEN CheckConstraint(row) ELSE ForeignKeyConstraint(UC, row)

----------------------------------------------------------------------------
(* database.py: expenses *)

create_expense(E, UC, new_id, t, user_id, amount, expense_type, system_category_id, user_category_id, description, date) ==
    LET row == [id |-> new_id, user_id |-> user_id, amount |-> amount,
                type |-> expense_type, system_category_id |-> system_category_id,
                user_category_id |-> user_category_id, description |-> description,
                date |-> date, created_at |-> t]
    IN  IF IntegrityError(UC, row) # ""
        THEN [raise |-> IntegrityError(UC, row), expenses |-> E, id |-> 0]
        ELSE [raise |-> "", expenses |-> E \cup {row}, id |-> new_id]

(* LEFT JOIN system_categories sc ... LEFT JOIN user_categories uc ... *)
Joined(UC, e) ==
    e @@ [system_category_name |->
              {c.display_name : c \in {c \in system_categories : Some(c.id) = e.system_category_id}},
          user_category_name |->
              {c.display_name : c \in {c \in UC : Some(c.id) = e.user_category_id}}]

(* WHERE clause of get_user_expenses *)
where_user_id_dropped(e, user_id) == TRUE

where_user_id(e, user_id) == e.user_id = user_id

where_clause(e, user_id, start_date, end_date, system_category_id, user_category_id, expense_type) ==
    /\ where_user_id(e, user_id)
    /\ TruthyStr(start_date) => StrLeq(Val(start_date), e.date)
    /\ TruthyStr(end_date) => StrLeq(e.date, Val(end_date))
    /\ TruthyInt(system_category_id) => e.system_category_id = system_category_id
    /\ TruthyInt(user_category_id) => e.user_category_id = user_category_id
    /\ TruthyStr(expense_type) => e.type = Val(expense_type)

(* ORDER BY e.date DESC, e.created_at DESC: a must come before b *)
order_by(a, b) ==
    \/ StrLess(b.date, a.date)
    \/ a.date = b.date /\ a.created_at > b.created_at

(* The orders in which the store may hand back the rows S: rows that ORDER BY
   does not tell apart come in any order. *)
Fetchall(S) ==
    LET n == Cardinality(S)
    IN  { s \in [1..n -> S] :
            /\ \A i, j \in 1..n : i # j => s[i] # s[j]
            /\ \A i, j \in 1..n : i < j => ~order_by(s[j], s[i]) }

get_user_expenses_params ==
    {"user_id", "start_date", "end_date", "system_category_id", "user_category_id",
     "expense_type"}

(* get_user_expenses called with the keyword arguments kwargs: the outcomes it
   may have.  raise is "TypeError" when the call does not fit the signature;
   otherwise value is the list returned. *)
get_user_expenses(E, UC, kwargs) ==
    IF UnexpectedKeyword(get_user_expenses_params, kwargs) \/ "user_id" \notin DOMAIN kwargs
    THEN { [raise |-> "TypeError", value |-> <<>>] }
    ELSE LET matched == { e \in E : where_clause(e, kwargs.user_id, Get(kwargs, "start_date"),
                                        Get(kwargs, "end_date"),
                                        Get(kwargs, "system_category_id"),
                                        Get(kwargs, "user_category_id"),
                                        Get(kwargs, "expense_type")) }
         IN  { [raise |-> "", value |-> [i \in 1..Cardinality(matched) |-> Joined(UC, s[i])]] :
                 s \in Fetchall(matched) }

get_expense_by_id(E, UC, expense_id, user_id) ==
    { Joined(UC, e) : e \in { e \in E : e.id = expense_id /\ e.user_id = user_id } }

(* UPDATE expenses SET ... WHERE id = ? AND user_id = ? *)
update_where_id_only(e, expense_id, user_id) == e.id = expense_id

update_where(e, expense_id, user_id) == e.id = expense_id /\ e.user_id = user_id

update_set(e, amount, expense_type, system_category_id, user_category_id, description, date) ==
    [e EXCEPT !.amount = IF amount # None THEN Val(amount) ELSE @,
              !.type = IF expense_type # None THEN Val(expense_type) ELSE @,
              !.system_category_id = IF system_category_id # None THEN system_category_id ELSE @,
              !.user_category_id = IF user_category_id # None THEN user_category_id ELSE @,
              !.description = IF description # None THEN description ELSE @,
              !.date = IF date # None THEN Val(date) ELSE @]

update_expense(E, UC, expense_id, user_id, amount, expense_type, system_category_id, user_category_id, description, date) ==
    IF /\ amount = None /\ expense_type = None /\ system_category_id = None
       /\ user_category_id = None /\ description = None /\ date = None
    THEN [raise |-> "", expenses |-> E, value |-> FALSE]
    ELSE LET hit == { e \in E : update_where(e, expense_id, user_id) }
             Upd(e) == update_set(e, amount, expense_type, system_category_id,
                                  user_category_id, description, date)
             bad == { IntegrityError(UC, Upd(e)) : e \in hit } \ {""}
         IN  IF bad # {}
             THEN [raise |-> CHOOSE m \in bad : TRUE, expenses |-> E, value |-> FALSE]
             ELSE [raise |-> "", expenses |-> (E \ hit) \cup { Upd(e) : e \in hit },
                   value |-> hit # {}]

(* DELETE FROM expenses WHERE id = ? AND user_id = ? *)
delete_where_id_only(e, expense_id, user_id) == e.id = expense_id

delete_where(e, expense_id, user_id) == e.id = expense_id /\ e.user_id = user_id

delete_expense_reports_true(E, expense_id, user_id) ==
    LET hit == { e \in E : delete_where(e, expense_id, user_id) }
    IN  [expenses |-> E \ hit, value |-> TRUE]

delete_expense(E, expense_id, user_id) ==
    LET hit == { e \in E : delete_where(e, expense_id, user_id) }
    IN  [expenses |-> E \ hit, value |-> hit # {}]

----------------------------------------------------------------------------
(* expenses.py: the routes.  Each gives the response and the table after it. *)

(* raised is the exception the handler caught on its way to the response *)
Response(status, body) == [status |-> status, body |-> body, raised |-> ""]
Error(status, message) == Response(status, [error |-> message])
Caught(exception, response) == [response EXCEPT !.raised = exception]

DefaultPage == 1
DefaultPerPage == 20
MaxPerPage == 100

(* str.strip() on the descriptions of the model *)
Strip(s) ==
    CASE s = " " -> ""
      [] s = " lunch " -> "lunch"
      [] OTHER -> s

(* except sqlite3.IntegrityError as e, in the create and update routes *)
integrity_error_response(message) ==
    Caught(message,
        IF message \in {"CHECK constraint failed: amount"}
        THEN Error(400, "Amount must be greater than 0")
        ELSE IF message \in {"CHECK constraint failed: type"}
        THEN Error(400, "Type must be 'expense' or 'income'")
        ELSE IF message \in {"FOREIGN KEY constraint failed"}
        THEN Error(400, "Invalid category ID")
        ELSE Error(400, "Constraint violation"))

(* create_new_expense once create_expense has returned expense_id: the record
   is read back and returned *)
create_new_expense_return(E, UC, expense_id, user_id) ==
    Response(201, [message |-> "Expense created successfully",
                   expense |-> get_expense_by_id(E, UC, expense_id, user_id)])

(* if amount <= 0, after amount = float(amount) *)
amount_rejected_never(amount) == FALSE

amount_rejected(amount) == amount <= 0

create_new_expense(E, UC, new_id, t, user_id, data) ==
    LET amount == Get(data, "amount")
        expense_type == Get(data, "type")
        date == Get(data, "date")
        system_category_id == Get(data, "system_category_id")
        user_category_id == Get(data, "user_category_id")
        Keep(r) == [resp |-> r, expenses |-> E]
    IN  IF ~TruthyInt(amount) \/ ~TruthyStr(expense_type) \/ ~TruthyStr(date)
        THEN Keep(Error(400, "amount, type, and date are required"))
        ELSE IF amount_rejected(Val(amount))
        THEN Keep(Error(400, "Amount must be greater than 0"))
        ELSE IF Val(expense_type) \notin {"expense", "income"}
        THEN Keep(Error(400, "Type must be 'expense' or 'income'"))
        ELSE IF ~DateShaped(Val(date))
        THEN Keep(Error(400, "Date must be in YYYY-MM-DD format"))
        ELSE IF "description" \in DOMAIN data /\ data.description = None
        THEN Keep(Caught("AttributeError", Error(500, "Internal server error")))  \* None.strip()
        ELSE LET stripped == IF "description" \in DOMAIN data
                             THEN Strip(Val(data.description)) ELSE ""
                 description == IF stripped # "" THEN Some(stripped) ELSE None
             IN  IF TruthyInt(system_category_id) /\ TruthyInt(user_category_id)
                 THEN Keep(Error(400, "Cannot set both system and user category"))
                 ELSE LET made == create_expense(E, UC, new_id, t, user_id, Val(amount),
                                                 Val(expense_type), system_category_id,
                                                 user_category_id, description, Val(date))
                      IN  IF made.raise # ""
                          THEN Keep(integrity_error_response(made.raise))
                          ELSE [resp |-> create_new_expense_return(made.expenses, UC,
                                                                   made.id, user_id),
                                expenses |-> made.expenses]

get_expense(E, UC, user_id, expense_id) ==
    LET expense == get_expense_by_id(E, UC, expense_id, user_id)
    IN  IF expense = None
        THEN Error(404, "Expense not found")
        ELSE Response(200, [expense |-> expense])

update_expense_route(E, UC, user_id, expense_id, data) ==
    LET amount == Get(data, "amount")
        expense_type == Get(data, "type")
        system_category_id == Get(data, "system_category_id")
        user_category_id == Get(data, "user_category_id")
        description == Get(data, "description")
        date == Get(data, "date")
        Keep(r) == [resp |-> r, expenses |-> E]
    IN  IF amount # None /\ Val(amount) <= 0
        THEN Keep(Error(400, "Amount must be greater than 0"))
        ELSE IF TruthyStr(expense_type) /\ Val(expense_type) \notin {"expense", "income"}
        THEN Keep(Error(400, "Type must be 'expense' or 'income'"))
        ELSE IF TruthyStr(date) /\ ~DateShaped(Val(date))
        THEN Keep(Error(400, "Date must be in YYYY-MM-DD format"))
        ELSE IF TruthyInt(system_category_id) /\ TruthyInt(user_category_id)
        THEN Keep(Error(400, "Cannot set both system and user category"))
        ELSE LET done == update_expense(E, UC, expense_id, user_id, amount, expense_type,
                                        system_category_id, user_category_id,
                                        description, date)
             IN  IF done.raise # ""
                 THEN Keep(integrity_error_response(done.raise))
                 ELSE IF ~done.value
                 THEN Keep(Error(404, "Expense not found or update failed"))
                 ELSE [resp |-> Response(200,
                           [message |-> "Expense updated successfully",
                            expense |-> get_expense_by_id(done.expenses, UC,
                                                          expense_id, user_id)]),
                       expenses |-> done.expenses]

delete_expense_route(E, user_id, expense_id) ==
    LET done == delete_expense(E, expense_id, user_id)
    IN  IF ~done.value
        THEN [resp |-> Error(404, "Expense not found"), expenses |-> done.expenses]
        ELSE [resp |-> Response(200, [message |-> "Expense deleted successfully"]),
              expenses |-> done.expenses]

(* request.args.get(key, default, type=int) *)
ArgInt(args, k, default) ==
    IF k \in DOMAIN args /\ ParseInt(args[k]) # None THEN Val(ParseInt(args[k])) ELSE default

ArgStr(args, k) == IF k \in DOMAIN args THEN Some(args[k]) ELSE None

(* The keyword arguments list_expenses passes to get_user_expenses *)
list_expenses_call(user_id, start_date, end_date, system_category_id, user_category_id, expense_type, page, per_page) ==
    [user_id |-> user_id, start_date |-> start_date, end_date |-> end_date,
     system_category_id |-> system_category_id, user_category_id |-> user_category_id,
     expense_type |-> expense_type, page |-> page, per_page |-> per_page]

(* result[key] on what get_user_expenses returns: a list takes no string index *)
Subscript(result, key) == [raise |-> "TypeError", value |-> None]

(* list_expenses from result['expenses'] on *)
list_expenses_result(result, page, per_page) ==
    LET listed == Subscript(result, "expenses")
        total_count == Subscript(result, "total_count")
    IN  IF listed.raise # "" THEN Caught(listed.raise, Error(500, "Internal server error"))
        ELSE IF total_count.raise # ""
        THEN Caught(total_count.raise, Error(500, "Internal server error"))
        ELSE LET total_pages == (Val(total_count.value) + per_page - 1) \div per_page
             IN  Response(200,
                     [expenses |-> listed.value,
                      pagination |-> [page |-> page, per_page |-> per_page,
                                      total_items |-> Val(total_count.value),
                                      total_pages |-> total_pages,
                                      has_previous |-> page > 1,
                                      has_next |-> page < total_pages]])

(* The responses list_expenses may give. *)
list_expenses(E, UC, user_id, args) ==
    LET page == Max2(1, ArgInt(args, "page", DefaultPage))
        per_page == Max2(1, Min2(MaxPerPage, ArgInt(args, "per_page", DefaultPerPage)))
        start_date == ArgStr(args, "start_date")
        end_date == ArgStr(args, "end_date")
        system_category_id == ArgStr(args, "system_category_id")
        user_category_id == ArgStr(args, "user_category_id")
        expense_type == ArgStr(args, "type")
    IN  IF TruthyStr(expense_type) /\ Val(expense_type) \notin {"expense", "income"}
        THEN { Error(400, "Type must be 'expense' or 'income'") }
        ELSE IF TruthyStr(system_category_id) /\ ParseInt(Val(system_category_id)) = None
        THEN { Error(400, "Invalid system_category_id") }
        ELSE IF TruthyStr(user_category_id) /\ ParseInt(Val(user_category_id)) = None
        THEN { Error(400, "Invalid user_category_id") }
        ELSE LET sc == IF TruthyStr(system_category_id)
                       THEN ParseInt(Val(system_category_id)) ELSE None
                 uc == IF TruthyStr(user_category_id)
                       THEN ParseInt(Val(user_category_id)) ELSE None
                 results == get_user_expenses(E, UC,
                                list_expenses_call(user_id, start_date, end_date, sc, uc,
                                                   expense_type, page, per_page))
             IN  { IF r.raise # ""
                   THEN Caught(r.raise, Error(500, "Internal server error"))
                   ELSE list_expenses_result(r.value, page, per_page) : r \in results }

----------------------------------------------------------------------------
(* Strings as character sequences: str.strip, str.upper, str.replace, re.match *)

LOWER == <<"a", "b", "c", "d", "e", "f", "g", "h", "i", "j", "k", "l", "m",
           "n", "o", "p", "q", "r", "s", "t", "u", "v", "w", "x", "y", "z">>
UPPER == <<"A", "B", "C", "D", "E", "F", "G", "H", "I", "J", "K", "L", "M",
           "N", "O", "P", "Q", "R", "S", "T", "U", "V", "W", "X", "Y", "Z">>
DIGITS == {"0", "1", "2", "3", "4", "5", "6", "7", "8", "9"}
WHITESPACE == {" ", "\t", "\n"}
Range(f) == { f[i] : i \in DOMAIN f }

RECURSIVE LStrip(_)
LStrip(s) == IF s # <<>> /\ Head(s) \in WHITESPACE THEN LStrip(Tail(s)) ELSE s

RECURSIVE RStrip(_)
RStrip(s) ==
    IF s # <<>> /\ s[Len(s)] \in WHITESPACE THEN RStrip(SubSeq(s, 1, Len(s) - 1)) ELSE s

StripChars(s) == RStrip(LStrip(s))

UpperChar(c) ==
    IF \E i \in 1..Len(LOWER) : LOWER[i] = c
    THEN UPPER[CHOOSE i \in 1..Len(LOWER) : LOWER[i] = c]
    ELSE c

UpperChars(s) == [i \in 1..Len(s) |-> UpperChar(s[i])]

ReplaceSpace(s) == [i \in 1..Len(s) |-> IF s[i] = " " THEN "_" ELSE s[i]]

(* re.match(r'^[a-zA-Z0-9 ]+$', display_name) *)
NamePattern_any_character(s) == Len(s) > 0

NamePattern(s) ==
    /\ Len(s) > 0
    /\ \A i \in 1..Len(s) : s[i] \in Range(LOWER) \cup Range(UPPER) \cup DIGITS \cup {" "}

(* display_name.upper().replace(' ', '_') *)
normalized_name_no_upper(display_name) == ReplaceSpace(display_name)

normalized_name(display_name) == ReplaceSpace(UpperChars(display_name))

MaxNameLength == 100

----------------------------------------------------------------------------
(* database.py and categories.py: user categories *)

(* raise sqlite3.IntegrityError(...): the two messages of create_user_category *)
system_category_error == "already exists as a system category"

user_category_error_as_system == "already exists as a system category"

user_category_error == "User already has category"

(* SELECT id FROM system_categories WHERE name = ? *)
system_exists_never(name) == FALSE

system_exists_on_display_name(name) == \E c \in system_categories : c.display_name = name

system_exists(name) == \E c \in system_categories : c.name = name

(* SELECT id FROM user_categories WHERE user_id = ? AND name = ? *)
user_exists_any_user(UC, user_id, name) == \E c \in UC : c.name = name

user_exists(UC, user_id, name) == \E c \in UC : c.user_id = user_id /\ c.name = name

(* except sqlite3.IntegrityError / except Exception, in post_category *)
post_category_except_by_message(exception, message, display_name) ==
    Caught(message,
        IF exception = "IntegrityError"
           /\ message \in {"already exists as a system category", "User already has category"}
        THEN Error(409, [text |-> "Category already exists", display_name |-> display_name])
        ELSE Error(400, "Constraint violation"))

post_category_except(exception, message, display_name) ==
    Caught(message,
        IF exception = "IntegrityError"
        THEN Error(409, [text |-> "Category already exists", display_name |-> display_name])
        ELSE Error(400, "Constraint violation"))

(* post_category up to the call of create_user_category: the response when the
   request is turned down, else the arguments of the call *)
post_category_validate(user_id, data) ==
    IF "display_name" \in DOMAIN data /\ data.display_name = None
    THEN [resp |-> post_category_except("AttributeError", "AttributeError", None)]  \* None.strip()
    ELSE LET display_name == IF "display_name" \in DOMAIN data
                             THEN StripChars(Val(data.display_name)) ELSE <<>>
         IN  IF Len(display_name) > MaxNameLength
             THEN [resp |-> Error(400, "Category name too long (max 100 characters)")]
             ELSE IF ~NamePattern(display_name)
             THEN [resp |-> Error(400,
                       "Category name can only contain letters, numbers, and spaces")]
             ELSE [call |-> [user_id |-> user_id, name |-> normalized_name(display_name),
                             display_name |-> display_name]]

(* return jsonify(...), 201 *)
post_category_created(category_id, call) ==
    Response(201, [message |-> "Category created successfully",
                   category |-> [id |-> category_id, name |-> call.name,
                                 display_name |-> call.display_name, type |-> "user"]])

(* INSERT INTO user_categories (user_id, name, display_name) VALUES (?, ?, ?) *)
insert_user_category(UC, new_id, t, call) ==
    IF UniqueConstraint(UC, call.user_id, call.name) # ""
    THEN [raise |-> UniqueConstraint(UC, call.user_id, call.name), user_categories |-> UC]
    ELSE [raise |-> "",
          user_categories |-> UC \cup { [id |-> new_id, user_id |-> call.user_id,
                                         name |-> call.name,
                                         display_name |-> call.display_name,
                                         created_at |-> t] }]

(* The order of TEXT values: of characters, then of strings *)
CharOrder == <<" ", "!">> \o <<"0", "1", "2", "3", "4", "5", "6", "7", "8", "9">>
                 \o UPPER \o <<"_">> \o LOWER

CharRank(c) == CHOOSE i \in 1..Len(CharOrder) : CharOrder[i] = c

RECURSIVE NameLeq(_, _)
NameLeq(a, b) ==
    IF Len(a) = 0 THEN TRUE
    ELSE IF Len(b) = 0 THEN FALSE
    ELSE IF Head(a) = Head(b) THEN NameLeq(Tail(a), Tail(b))
    ELSE CharRank(Head(a)) < CharRank(Head(b))

(* SELECT id, name, display_name, FROM system_categories ORDER BY display_name:
   the definition of get_system_categories in force, the later one; the comma
   before FROM is a syntax error *)
get_system_categories == [raise |-> "OperationalError", value |-> <<>>]

(* get_user_categories(user_id): the rows of the user in each order ORDER BY
   display_name admits; TypeError when called without user_id *)
get_user_categories(UC, args) ==
    IF "user_id" \notin DOMAIN args
    THEN { [raise |-> "TypeError", value |-> <<>>] }
    ELSE LET rows == { c \in UC : c.user_id = args.user_id }
         IN  { [raise |-> "", value |-> f] :
                 f \in { g \in [1..Cardinality(rows) -> rows] :
                            /\ \A i, j \in DOMAIN g : i # j => g[i] # g[j]
                            /\ \A i, j \in DOMAIN g :
                                   i < j => NameLeq(g[i].display_name, g[j].display_name) } }

(* list(heapq.merge(a, b)) *)
RECURSIVE heapq_merge(_, _)
heapq_merge(a, b) ==
    IF Len(a) = 0 THEN b
    ELSE IF Len(b) = 0 THEN a
    ELSE IF NameLeq(Head(a), Head(b)) THEN <<Head(a)>> \o heapq_merge(Tail(a), b)
    ELSE <<Head(b)>> \o heapq_merge(a, Tail(b))

(* GET /categories: the responses get_categories may give *)
get_categories(UC, user_id) ==
    LET system == get_system_categories
    IN  IF system.raise # ""
        THEN { Caught(system.raise, Error(500, "Internal server error")) }
        ELSE { IF user.raise # ""
               THEN Caught(user.raise, Error(500, "Internal server error"))
               ELSE LET categories ==
                            heapq_merge([i \in DOMAIN system.value |->
                                             system.value[i].display_name],
                                        [i \in DOMAIN user.value |->
                                             user.value[i].display_name])
                    IN  Response(200, [categories |-> categories,
                                       summary |-> [total |-> Len(categories)]]) :
               user \in get_user_categories(UC, <<>>) }

(* DELETE FROM user_categories WHERE id = ? AND user_id = ? *)
delete_user_category(UC, E, category_id, user_id) ==
    LET hit == { c \in UC : c.id = category_id /\ c.user_id = user_id }
    IN  IF ForeignKeyRestrict(E, hit) # ""
        THEN [raise |-> ForeignKeyRestrict(E, hit), user_categories |-> UC, value |-> FALSE]
        ELSE [raise |-> "", user_categories |-> UC \ hit, value |-> hit # {}]

delete_user_category_route(UC, E, user_id, category_id) ==
    LET done == delete_user_category(UC, E, category_id, user_id)
    IN  IF done.raise # ""
        THEN [resp |-> Caught(done.raise, Error(500, "Internal server error")),
              user_categories |-> done.user_categories]
        ELSE IF ~done.value
        \* jsonify({"error: category not found"}) is given a set: TypeError
        THEN [resp |-> Caught("TypeError", Error(500, "Internal server error")),
              user_categories |-> done.user_categories]
        ELSE [resp |-> Response(200, [message |-> "Category deleted successfully"]),
              user_categories |-> done.user_categories]

----------------------------------------------------------------------------
(* The state machine *)

Idle ==
    [op |-> "none", user |-> 0, id |-> 0, req |-> <<>>, status |-> 0, body |-> <<>>,
     raised |-> ""]

Returned(op, user, id, req, r) ==
    [op |-> op, user |-> user, id |-> id, req |-> req, status |-> r.status, body |-> r.body,
     raised |-> r.raised]

Init ==
    /\ expenses = {}
    /\ user_categories = {}
    /\ next_expense_id = 1
    /\ next_category_id = 1
    /\ now = 0
    /\ pc = [w \in Workers |-> "idle"]
    /\ job = [w \in Workers |-> <<>>]
    /\ resp = Idle
    /\ connections = 0

(* POST /expenses *)
CreateNewExpense(u, data) ==
    /\ next_expense_id <= MaxExpenses
    /\ LET out == create_new_expense(expenses, user_categories, next_expense_id, now, u, data)
       IN  /\ expenses' = out.expenses
           /\ next_expense_id' = IF out.resp.status = 201
                                 THEN next_expense_id + 1 ELSE next_expense_id
           /\ resp' = Returned("create", u, 0, data, out.resp)
    /\ UNCHANGED <<user_categories, next_category_id, now, pc, job, connections>>

(* sqlite3.connect: one more open connection *)
get_db_connection(n) == n + 1

(* Leaving "with get_db_connection() as conn:": the transaction is committed,
   or rolled back on an exception; the connection is not closed *)
connection_exit(n) == n

(* The database function has returned or raised and nothing refers to its
   connection object any more; the runtime closes the connection when it
   finalizes the object: reference counting does so at once, another collector
   at some later time *)
Unreferenced(n) == {n - 1, n}

(* The open connections after k calls of database functions, from n *)
RECURSIVE Calls(_, _)
Calls(n, k) ==
    IF k = 0 THEN {n}
    ELSE UNION { Unreferenced(connection_exit(get_db_connection(m))) : m \in Calls(n, k - 1) }

(* POST /expenses, with its connections: none when the body is refused, one
   in create_expense, one more in get_expense_by_id *)
CreateNewExpenseConn(u, data) ==
    /\ next_expense_id <= MaxExpenses
    /\ connections + 2 <= MaxConnections
    /\ LET out == create_new_expense(expenses, user_categories, next_expense_id, now, u, data)
           called == IF out.resp.status = 201 THEN 2
                     ELSE IF out.resp.raised # "" THEN 1 ELSE 0
       IN  /\ expenses' = out.expenses
           /\ next_expense_id' = IF out.resp.status = 201
                                 THEN next_expense_id + 1 ELSE next_expense_id
           /\ resp' = Returned("create", u, 0, data, out.resp)
           /\ connections' \in Calls(connections, called)
    /\ UNCHANGED <<user_categories, next_category_id, now, pc, job>>

(* DELETE /expenses/<id>, with the connection of delete_expense *)
DeleteExpenseConn(u, id) ==
    /\ connections + 1 <= MaxConnections
    /\ LET out == delete_expense_route(expenses, u, id)
       IN  /\ expenses' = out.expenses
           /\ resp' = Returned("delete", u, id, <<>>, out.resp)
    /\ connections' \in Calls(connections, 1)
    /\ UNCHANGED <<user_categories, next_expense_id, next_category_id, now, pc, job>>

(* The runtime finalizes a connection object left behind *)
Finalize ==
    /\ connections > 0
    /\ connections' = connections - 1
    /\ UNCHANGED <<expenses, user_categories, next_expense_id, next_category_id, now, pc, job,
                   resp>>

(* POST /expenses served by worker w, up to the commit of create_expense *)
CreateExpenseInsert(w, u, data) ==
    /\ pc[w] = "idle"
    /\ next_expense_id <= MaxExpenses
    /\ LET out == create_new_expense(expenses, user_categories, next_expense_id, now, u, data)
       IN  /\ expenses' = out.expenses
           /\ IF out.resp.status = 201
              THEN /\ next_expense_id' = next_expense_id + 1
                   /\ pc' = [pc EXCEPT ![w] = "fetch"]
                   /\ job' = [job EXCEPT ![w] =
                                 [user_id |-> u, expense_id |-> next_expense_id, data |-> data,
                                  stored |-> CHOOSE e \in out.expenses : e.id = next_expense_id]]
                   /\ resp' = Idle
              ELSE /\ resp' = Returned("create", u, 0, data, out.resp)
                   /\ UNCHANGED <<next_expense_id, pc, job>>
    /\ UNCHANGED <<user_categories, next_category_id, now, connections>>

(* POST /expenses served by worker w, from get_expense_by_id to the response *)
CreateExpenseFetch(w) ==
    /\ pc[w] = "fetch"
    /\ resp' = Returned("create", job[w].user_id, job[w].expense_id, job[w].data,
                   create_new_expense_return(expenses, user_categories,
                                             job[w].expense_id, job[w].user_id))
    /\ pc' = [pc EXCEPT ![w] = "idle"]
    /\ job' = [job EXCEPT ![w] = <<>>]
    /\ UNCHANGED <<expenses, user_categories, next_expense_id, next_category_id, now, connections>>

(* GET /expenses/<id> *)
GetExpense(u, id) ==
    /\ resp' = Returned("get", u, id, <<>>, get_expense(expenses, user_categories, u, id))
    /\ UNCHANGED <<expenses, user_categories, next_expense_id, next_category_id, now, pc, job,
                   connections>>

(* PUT /expenses/<id> *)
UpdateExpenseRoute(u, id, data) ==
    /\ LET out == update_expense_route(expenses, user_categories, u, id, data)
       IN  /\ expenses' = out.expenses
           /\ resp' = Returned("update", u, id, data, out.resp)
    /\ UNCHANGED <<user_categories, next_expense_id, next_category_id, now, pc, job, connections>>

(* DELETE /expenses/<id> *)
DeleteExpenseRoute(u, id) ==
    /\ LET out == delete_expense_route(expenses, u, id)
       IN  /\ expenses' = out.expenses
           /\ resp' = Returned("delete", u, id, <<>>, out.resp)
    /\ UNCHANGED <<user_categories, next_expense_id, next_category_id, now, pc, job, connections>>

(* GET /expenses *)
ListExpenses(u, args) ==
    /\ \E r \in list_expenses(expenses, user_categories, u, args) :
           resp' = Returned("list", u, 0, args, r)
    /\ UNCHANGED <<expenses, user_categories, next_expense_id, next_category_id, now, pc, job,
                   connections>>

(* database.get_user_expenses called with keyword arguments, as the tests call it *)
GetUserExpenses(kwargs) ==
    /\ \E r \in get_user_expenses(expenses, user_categories, kwargs) :
           resp' = [op |-> "get_user_expenses", user |-> kwargs.user_id, id |-> 0,
                    req |-> kwargs, status |-> 0, body |-> r.value, raised |-> r.raise]
    /\ UNCHANGED <<expenses, user_categories, next_expense_id, next_category_id, now, pc, job,
                   connections>>

(* Time passes in the store. *)
Tick ==
    /\ now < MaxClock
    /\ now' = now + 1
    /\ resp' = Idle
    /\ UNCHANGED <<expenses, user_categories, next_expense_id, next_category_id, pc, job,
                   connections>>

(* POST /categories, served by worker w: the route up to and including the
   first SELECT of create_user_category *)
PostCategory(w, u, data) ==
    /\ pc[w] = "idle"
    /\ LET v == post_category_validate(u, data)
       IN  IF "resp" \in DOMAIN v
           THEN /\ resp' = Returned("post_category", u, 0, data, v.resp)
                /\ UNCHANGED <<pc, job>>
           ELSE IF system_exists(v.call.name)
           THEN /\ resp' = Returned("post_category", u, 0, v.call,
                               post_category_except("IntegrityError",
                                   system_category_error, v.call.display_name))
                /\ UNCHANGED <<pc, job>>
           ELSE /\ pc' = [pc EXCEPT ![w] = "user_exists"]
                /\ job' = [job EXCEPT ![w] = v.call]
                /\ resp' = Idle
    /\ UNCHANGED <<expenses, user_categories, next_expense_id, next_category_id, now, connections>>

(* create_user_category: the second SELECT *)
UserExists(w) ==
    /\ pc[w] = "user_exists"
    /\ IF user_exists(user_categories, job[w].user_id, job[w].name)
       THEN /\ resp' = Returned("post_category", job[w].user_id, 0, job[w],
                           post_category_except("IntegrityError",
                               user_category_error, job[w].display_name))
            /\ pc' = [pc EXCEPT ![w] = "idle"]
            /\ job' = [job EXCEPT ![w] = <<>>]
       ELSE /\ pc' = [pc EXCEPT ![w] = "insert"]
            /\ resp' = Idle
            /\ UNCHANGED job
    /\ UNCHANGED <<expenses, user_categories, next_expense_id, next_category_id, now, connections>>

(* create_user_category: INSERT and commit, and the route's response *)
InsertCategory(w) ==
    /\ pc[w] = "insert"
    /\ \/ next_category_id <= MaxCategories
       \/ UniqueConstraint(user_categories, job[w].user_id, job[w].name) # ""
    /\ LET out == insert_user_category(user_categories, next_category_id, now, job[w])
       IN  /\ user_categories' = out.user_categories
           /\ next_category_id' = IF out.raise = ""
                                  THEN next_category_id + 1 ELSE next_category_id
           /\ resp' = Returned("post_category", job[w].user_id, 0, job[w],
                          IF out.raise = ""
                          THEN post_category_created(next_category_id, job[w])
                          ELSE post_category_except("IntegrityError", out.raise,
                                                    job[w].display_name))
    /\ pc' = [pc EXCEPT ![w] = "idle"]
    /\ job' = [job EXCEPT ![w] = <<>>]
    /\ UNCHANGED <<expenses, next_expense_id, now, connections>>

(* GET /categories *)
GetCategories(u) ==
    /\ \E r \in get_categories(user_categories, u) :
           resp' = Returned("get_categories", u, 0, <<>>, r)
    /\ UNCHANGED <<expenses, user_categories, next_expense_id, next_category_id, now, pc, job,
                   connections>>

(* DELETE /categories/<id> *)
DeleteUserCategoryRoute(u, id) ==
    /\ LET out == delete_user_category_route(user_categories, expenses, u, id)
       IN  /\ user_categories' = out.user_categories
           /\ resp' = Returned("delete_category", u, id, <<>>, out.resp)
    /\ UNCHANGED <<expenses, next_expense_id, next_category_id, now, pc, job, connections>>

(* Requests of the ledger specifications *)
CreateBodies ==
    { [amount |-> Some(10), type |-> Some("expense"), date |-> Some("2024-01-03"),
       system_category_id |-> Some(1)],
      [amount |-> Some(20), type |-> Some("income"), date |-> Some("2024-01-01"),
       user_category_id |-> Some(1), description |-> Some(" lunch ")],
      [amount |-> Some(0), type |-> Some("expense"), date |-> Some("2024-01-03")],
      [amount |-> Some(0 - 5), type |-> Some("expense"), date |-> Some("2024-01-03")],
      [amount |-> Some(10), type |-> Some("expense"), date |-> Some("2024-01-03"),
       system_category_id |-> Some(1), user_category_id |-> Some(1)] }

UpdateBodies ==
    { <<>>,
      [user_category_id |-> Some(1)],
      [amount |-> Some(20), user_category_id |-> None],
      [amount |-> Some(0)] }

ListArgs ==
    { <<>>,
      [page |-> "2", per_page |-> "1", type |-> "expense"],
      [page |-> "0", per_page |-> "0"],
      [type |-> "gift"] }

ListKwargs(u) ==
    { [user_id |-> u],
      [user_id |-> u, page |-> 1, per_page |-> 20],
      [user_id |-> u, expense_type |-> Some("expense")],
      [user_id |-> u, start_date |-> Some("2024-01-03"), system_category_id |-> Some(1)],
      [user_id |-> u, sort_by |-> "amount", order |-> "asc"],
      [user_id |-> u, min_amount |-> Some(15)] }

(* The ledger: create, read, update, delete *)
Next ==
    \/ \E u \in Users, data \in CreateBodies : CreateNewExpense(u, data)
    \/ \E u \in Users, id \in ExpenseIds : GetExpense(u, id)
    \/ \E u \in Users, id \in ExpenseIds, data \in UpdateBodies : UpdateExpenseRoute(u, id, data)
    \/ \E u \in Users, id \in ExpenseIds : DeleteExpenseRoute(u, id)

Spec == Init /\ [][Next]_vars

(* Update bodies with a value outside its domain *)
DomainBodies ==
    { [amount |-> Some(0)],
      [type |-> Some("gift")],
      [type |-> Some("")],
      [date |-> Some("yesterday")],
      [date |-> Some("")] }

(* The ledger: create, and update with those bodies *)
NextDomain ==
    \/ \E u \in Users, data \in CreateBodies : CreateNewExpense(u, data)
    \/ \E u \in Users, id \in ExpenseIds, data \in DomainBodies : UpdateExpenseRoute(u, id, data)

SpecDomain == Init /\ [][NextDomain]_vars

(* The ledger and the connections its requests open *)
NextConn ==
    \/ \E u \in Users, data \in CreateBodies : CreateNewExpenseConn(u, data)
    \/ \E u \in Users, id \in ExpenseIds : DeleteExpenseConn(u, id)
    \/ Finalize

SpecConn == Init /\ [][NextConn]_vars

(* The ledger with concurrent requests: a create in two steps, the other
   mutations in one *)
NextRace ==
    \/ \E w \in Workers, u \in Users, data \in CreateBodies : CreateExpenseInsert(w, u, data)
    \/ \E w \in Workers : CreateExpenseFetch(w)
    \/ \E u \in Users, id \in ExpenseIds, data \in UpdateBodies : UpdateExpenseRoute(u, id, data)
    \/ \E u \in Users, id \in ExpenseIds : DeleteExpenseRoute(u, id)

SpecRace == Init /\ [][NextRace]_vars

(* The ledger: create and the queries *)
NextList ==
    \/ \E u \in Users, data \in CreateBodies : CreateNewExpense(u, data)
    \/ \E u \in Users, id \in ExpenseIds : GetExpense(u, id)
    \/ \E u \in Users, args \in ListArgs : ListExpenses(u, args)
    \/ \E u \in Users : \E kwargs \in ListKwargs(u) : GetUserExpenses(kwargs)
    \/ Tick

SpecList == Init /\ [][NextList]_vars

(* The category namespace, two workers serving requests concurrently *)
CategoryBodies ==
    { [display_name |-> Some(<<"C", "o", "f", "f", "e", "e", " ", "S", "h", "o", "p">>)],
      [display_name |-> Some(<<" ", "c", "o", "f", "f", "e", "e", " ", "s", "h", "o", "p">>)],
      [display_name |-> Some(<<"f", "o", "o", "d">>)],
      [display_name |-> Some(<<"!">>)] }

(* Display names at the edges of the validation *)
NameBodies ==
    { <<>>,
      [display_name |-> Some(<<" ", " ">>)],
      [display_name |-> Some([i \in 1..(MaxNameLength + 1) |-> "a"])],
      [display_name |-> Some(<<" ">> \o [i \in 1..MaxNameLength |-> "a"])],
      [display_name |-> Some(<<"a", "_", "b">>)],
      [display_name |-> Some(<<"f", "o", "o", "d">>)] }

(* The category routes on those names, one request at a time *)
NextNames ==
    \/ \E u \in Users, data \in NameBodies : PostCategory(1, u, data)
    \/ UserExists(1)
    \/ InsertCategory(1)
    \/ \E u \in Users : GetCategories(u)
    \/ \E u \in Users, id \in CategoryIds : DeleteUserCategoryRoute(u, id)

SpecNames == Init /\ [][NextNames]_vars

(* Transactions that name user categories: the category routes, one request
   at a time, with create and get of the ledger *)
NextRef ==
    \/ \E u \in Users : PostCategory(1, u, [display_name |-> Some(<<"G", "y", "m">>)])
    \/ UserExists(1)
    \/ InsertCategory(1)
    \/ \E u \in Users, id \in CategoryIds : DeleteUserCategoryRoute(u, id)
    \/ \E u \in Users, data \in CreateBodies : CreateNewExpense(u, data)
    \/ \E u \in Users, id \in ExpenseIds : GetExpense(u, id)

SpecRef == Init /\ [][NextRef]_vars

NextCat ==
    \/ \E w \in Workers, u \in Users, data \in CategoryBodies : PostCategory(w, u, data)
    \/ \E w \in Workers : UserExists(w)
    \/ \E w \in Workers : InsertCategory(w)
    \/ \E u \in Users, id \in CategoryIds : DeleteUserCategoryRoute(u, id)

SpecCat == Init /\ [][NextCat]_vars

----------------------------------------------------------------------------
(* Ownership of transactions *)

Owned(E, id, u) == \E e \in E : e.id = id /\ e.user_id = u
Foreign(E, id, u) == \E e \in E : e.id = id /\ e.user_id # u

(* Every combination of the filters get_user_expenses takes *)
FilterSpace(u) ==
    [user_id : {u},
     start_date : {None, Some("2024-01-03")},
     end_date : {None, Some("2024-01-01")},
     system_category_id : {None, Some(0), Some(1)},
     user_category_id : {None, Some(1)},
     expense_type : {None, Some("expense")}]

(* C1: whatever filters or transaction id a user supplies, the list call and
   get-by-id hand that user only transactions whose user_id is the user's own:
   in what the last call returned, and in what every other filter combination
   would return from the same store. *)
C1_NoCrossUserRead ==
    /\ resp.op = "get_user_expenses" =>
           \A i \in DOMAIN resp.body : resp.body[i].user_id = resp.user
    /\ resp.op = "list" => "expenses" \notin DOMAIN resp.body
    /\ resp.op = "get" /\ resp.status = 200 =>
           \A e \in resp.body.expense : e.user_id = resp.user /\ e.id = resp.id
    /\ \A u \in Users : \A kwargs \in FilterSpace(u) :
           \A r \in get_user_expenses(expenses, user_categories, kwargs) :
               \A i \in DOMAIN r.value : r.value[i].user_id = u
    /\ \A u \in Users, id \in ExpenseIds :
           \A e \in get_expense_by_id(expenses, user_categories, id, u) : e.user_id = u

(* A user listed their transactions, got some, while the store also holds a
   transaction of another user that passes the same filters. *)
C1_Witness ==
    /\ resp.op = "get_user_expenses"
    /\ resp.raised = ""
    /\ Len(resp.body) >= 1
    /\ \E e \in expenses :
           /\ e.user_id # resp.user
           /\ \E mine \in expenses : mine.user_id = resp.user /\ mine.date = e.date
                                     /\ mine.type = e.type

(* C2: an update or delete made with one user's identity leaves every
   transaction of every other user as it was, whatever id it names. *)
C2_OthersUntouched ==
    [][ resp'.op \in {"update", "delete"} =>
            { e \in expenses' : e.user_id # resp'.user }
                = { e \in expenses : e.user_id # resp'.user } ]_vars

(* A user sent a well-formed update that names exactly the id of another
   user's transaction. *)
C2_Witness ==
    /\ resp.op = "update"
    /\ "amount" \in DOMAIN resp.req
    /\ resp.status # 400
    /\ Foreign(expenses, resp.id, resp.user)

(* What a route answers to the request recorded in r when the table is E *)
RouteOutcome(E, r) ==
    CASE r.op = "get" -> get_expense(E, user_categories, r.user, r.id)
      [] r.op = "update" -> update_expense_route(E, user_categories, r.user, r.id, r.req).resp
      [] r.op = "delete" -> delete_expense_route(E, r.user, r.id).resp

(* C3: get, update and delete of an id owned by another user answer exactly
   what they would answer if no transaction had that id, never with success,
   and change nothing. *)
C3_NoExistenceLeak ==
    [][ (resp'.op \in {"get", "update", "delete"} /\ Foreign(expenses, resp'.id, resp'.user)) =>
            /\ LET absent == RouteOutcome({ e \in expenses : e.id # resp'.id }, resp')
               IN  resp'.status = absent.status /\ resp'.body = absent.body
            /\ resp'.status \in {400, 404}
            /\ expenses' = expenses ]_vars

(* A user tried to delete the id of another user's transaction and was told
   it was not found; the transaction is still there. *)
C3_Witness ==
    /\ resp.op = "delete"
    /\ resp.status = 404
    /\ Foreign(expenses, resp.id, resp.user)

----------------------------------------------------------------------------
(* The category namespace *)

(* C4: no user category has the canonical key of a system category or of
   another category of the same user. *)
C4_KeysDistinct ==
    \A c \in user_categories :
        /\ \A sc \in system_categories : sc.name # c.name
        /\ \A d \in user_categories : (d.user_id = c.user_id /\ d.name = c.name) => d = c

(* A user who holds a category was refused a second one with the same key,
   while another user holds that key too. *)
C4_Witness ==
    /\ resp.op = "post_category"
    /\ resp.status = 409
    /\ \E c, d \in user_categories :
           /\ c.user_id = resp.user /\ c.name = resp.req.name
           /\ d.user_id # c.user_id /\ d.name = c.name

ConflictResponse(display_name) ==
    [status |-> 409,
     body |-> [error |-> [text |-> "Category already exists", display_name |-> display_name]]]

(* C5: when the store itself turns down the insert of a category create
   (another create for the same user and key got in between the pre-check and
   the insert), the caller gets the very response of a pre-check collision,
   and two categories of one user never share a key. *)
C5_RaceIsConflict ==
    /\ \A c, d \in user_categories : (d.user_id = c.user_id /\ d.name = c.name) => d = c
    /\ (resp.op = "post_category" /\ resp.raised = UniqueViolation) =>
           /\ [status |-> resp.status, body |-> resp.body] = ConflictResponse(resp.req.display_name)
           /\ \E c \in user_categories : c.user_id = resp.user /\ c.name = resp.req.name

(* Two creates for one user and key both passed the pre-checks; one inserted,
   the store turned the other down. *)
C5_Witness ==
    /\ resp.op = "post_category"
    /\ resp.raised = UniqueViolation
    /\ \E c \in user_categories : c.user_id = resp.user /\ c.name = resp.req.name

----------------------------------------------------------------------------
(* The list query *)

Supplied(f, k) == k \in DOMAIN f /\ f[k] # None

(* The filters of the list operation, all of them applied *)
Matches(e, u, f) ==
    /\ e.user_id = u
    /\ Supplied(f, "start_date") => StrLeq(Val(f.start_date), e.date)
    /\ Supplied(f, "end_date") => StrLeq(e.date, Val(f.end_date))
    /\ Supplied(f, "system_category_id") => e.system_category_id = f.system_category_id
    /\ Supplied(f, "user_category_id") => e.user_category_id = f.user_category_id
    /\ Supplied(f, "expense_type") => e.type = Val(f.expense_type)
    /\ Supplied(f, "min_amount") => e.amount >= Val(f.min_amount)
    /\ Supplied(f, "max_amount") => e.amount <= Val(f.max_amount)

MatchCount(u, f) == Cardinality({ e \in expenses : Matches(e, u, f) })

FilterKeys ==
    {"user_id", "start_date", "end_date", "system_category_id", "user_category_id",
     "expense_type", "min_amount", "max_amount"}

(* The filters a GET /expenses query string carries, as the list operation
   takes them *)
QueryFilters(args) ==
    [k \in (DOMAIN args) \cap {"start_date", "end_date"} |-> Some(args[k])]
    @@ [k \in (DOMAIN args) \cap {"system_category_id", "user_category_id"} |->
            ParseInt(args[k])]
    @@ [k \in {"expense_type"} \cap (IF "type" \in DOMAIN args THEN {"expense_type"} ELSE {})
            |-> Some(args.type)]

(* The lengths of pages 1, 2, ... of fixed size n, up to the first empty one,
   add up to total; -1 when a page cannot be had. *)
RECURSIVE PageWalk(_, _, _)
PageWalk(u, n, p) ==
    LET outcomes == get_user_expenses(expenses, user_categories,
                                      [user_id |-> u, page |-> p, per_page |-> n])
        page == CHOOSE r \in outcomes : TRUE
    IN  IF page.raise # "" THEN 0 - 1
        ELSE IF Len(page.value) = 0 \/ p > MaxExpenses THEN 0
        ELSE LET rest == PageWalk(u, n, p + 1)
             IN  IF rest < 0 THEN rest ELSE Len(page.value) + rest

(* C6: total_count of a list call is the number of the caller's transactions
   that satisfy the filters, whatever the page, and the pages walked with a
   fixed per_page add up to it. *)
C6_TotalCount ==
    /\ resp.op = "get_user_expenses" =>
           /\ resp.raised = ""
           /\ Subscript(resp.body, "total_count") =
                  [raise |-> "", value |-> Some(MatchCount(resp.user, resp.req))]
           /\ PageWalk(resp.user, 1, 1) = MatchCount(resp.user, [user_id |-> resp.user])
    /\ (resp.op = "list" /\ resp.status # 400) =>
           /\ resp.status = 200
           /\ resp.body.pagination.total_items = MatchCount(resp.user, QueryFilters(resp.req))

(* C7: page p of size n holds the items at positions (p-1)*n .. (p-1)*n+n-1 of
   the ordered matching sequence, none when that is past the end, and the
   total_count with it. *)
C7_PageSlice ==
    (resp.op = "get_user_expenses" /\ "page" \in DOMAIN resp.req) =>
        /\ resp.raised = ""
        /\ \E full \in get_user_expenses(expenses, user_categories, [user_id |-> resp.user]) :
               LET offset == (resp.req.page - 1) * resp.req.per_page
               IN  Subscript(resp.body, "expenses") =
                       [raise |-> "",
                        value |-> Some(SubSeq(full.value, offset + 1,
                                          Min2(offset + resp.req.per_page, Len(full.value))))]
        /\ Subscript(resp.body, "total_count") =
               [raise |-> "", value |-> Some(MatchCount(resp.user, [user_id |-> resp.user]))]

(* C8: by default the items come by date descending and, within one date, by
   id descending. *)
C8_IdTieBreak ==
    (resp.op = "get_user_expenses" /\ resp.raised = "" /\ "sort_by" \notin DOMAIN resp.req) =>
        \A i, j \in DOMAIN resp.body :
            i < j => \/ StrLess(resp.body[j].date, resp.body[i].date)
                     \/ /\ resp.body[i].date = resp.body[j].date
                        /\ resp.body[i].id > resp.body[j].id

(* C9: the items come in the requested order of the requested column: by date
   descending when none is asked for, amounts non-decreasing for sort_by amount,
   order asc. *)
C9_RequestedSort ==
    /\ (resp.op = "get_user_expenses" /\ resp.raised = "" /\ "sort_by" \notin DOMAIN resp.req) =>
           \A i, j \in DOMAIN resp.body : i < j => StrLeq(resp.body[j].date, resp.body[i].date)
    /\ (resp.op = "get_user_expenses" /\ "sort_by" \in DOMAIN resp.req) =>
           /\ resp.raised = ""
           /\ (resp.req.sort_by = "amount" /\ resp.req.order = "asc") =>
                  \A i, j \in DOMAIN resp.body : i < j => resp.body[i].amount <= resp.body[j].amount

(* C10: a list call that supplies filters (dates, categories, kind, amounts)
   returns exactly the caller's transactions that satisfy all of them. *)
C10_FilterConjunction ==
    (resp.op = "get_user_expenses" /\ DOMAIN resp.req \subseteq FilterKeys) =>
        /\ resp.raised = ""
        /\ { resp.body[i].id : i \in DOMAIN resp.body }
               = { e.id : e \in { e \in expenses : Matches(e, resp.user, resp.req) } }

----------------------------------------------------------------------------
(* The ledger: category reference, update, delete, create *)

(* C11: no stored transaction has both a system category and a user category,
   after any sequence of creates and updates. *)
C11_OneCategory ==
    \A e \in expenses : e.system_category_id = None \/ e.user_category_id = None

UpdateKeys ==
    {"amount", "type", "system_category_id", "user_category_id", "description", "date"}

(* The value column k holds once the value v of a request body is stored *)
StoredValue(k, v) == IF k \in {"amount", "type", "date"} /\ v # None THEN Val(v) ELSE v

(* C12: a successful update leaves the record with the request's value in
   every field the request holds and the prior value in every other field,
   and leaves every other transaction as it was. *)
C12_PartialUpdate ==
    [][ (resp'.op = "update" /\ resp'.status = 200) =>
            \E old \in expenses, new \in expenses' :
                /\ old.id = resp'.id /\ new.id = resp'.id
                /\ expenses' \ {new} = expenses \ {old}
                /\ new.user_id = old.user_id /\ new.created_at = old.created_at
                /\ \A k \in UpdateKeys :
                       new[k] = IF k \in DOMAIN resp'.req
                                THEN StoredValue(k, resp'.req[k]) ELSE old[k] ]_vars

(* C13: an update with no field changes nothing, answers success when the
   caller owns a transaction of that id and not-found when not. *)
C13_EmptyUpdate ==
    [][ (resp'.op = "update" /\ resp'.req = <<>>) =>
            /\ expenses' = expenses
            /\ IF Owned(expenses, resp'.id, resp'.user)
               THEN resp'.status = 200 ELSE resp'.status = 404 ]_vars

(* C14: update and delete succeed only on a transaction the caller owns;
   delete then removes exactly that record, which can no longer be read;
   with no such record they answer not-found (or refuse the body), raise
   nothing and leave the table as it was. *)
C14_OwnedOrFalse ==
    [][ resp'.op \in {"update", "delete"} =>
            LET owned == { e \in expenses : e.id = resp'.id /\ e.user_id = resp'.user }
            IN  /\ resp'.status = 200 => owned # {}
                /\ (resp'.op = "delete" /\ owned # {}) =>
                       /\ resp'.status = 200
                       /\ expenses' = expenses \ owned
                       /\ get_expense_by_id(expenses', user_categories', resp'.id,
                                            resp'.user) = None
                /\ owned = {} =>
                       /\ resp'.status \in {400, 404}
                       /\ resp'.op = "delete" => resp'.status = 404
                       /\ resp'.raised = ""
                       /\ expenses' = expenses ]_vars

(* A delete of an id the caller held: answered with success, and no
   transaction has that id any more. *)
C14_Witness ==
    /\ resp.op = "delete"
    /\ resp.status = 200
    /\ \A e \in expenses : e.id # resp.id

(* C15: a create with a zero or negative amount is refused as invalid input
   before the store is called, and the transactions are as before. *)
C15_NonPositiveAmount ==
    [][ (/\ resp'.op = "create"
         /\ Get(resp'.req, "amount") # None
         /\ Val(Get(resp'.req, "amount")) <= 0) =>
            /\ resp'.status = 400
            /\ resp'.raised = ""
            /\ expenses' = expenses
            /\ next_expense_id' = next_expense_id ]_vars

(* A create with amount -5 was refused while a transaction was stored. *)
C15_Witness ==
    /\ resp.op = "create"
    /\ Get(resp.req, "amount") = Some(0 - 5)
    /\ resp.status = 400
    /\ expenses # {}

(* C16: a successful create returns the record this create stored, with its
   id, timestamp, fields and resolved category names, whatever other requests
   ran meanwhile. *)
C16_ReadAfterWrite ==
    [][ \A w \in Workers :
            (pc[w] = "fetch" /\ pc'[w] = "idle") =>
                /\ resp'.status = 201
                /\ resp'.body.expense = Some(Joined(user_categories, job[w].stored)) ]_vars

----------------------------------------------------------------------------
(* The category namespace: collisions *)

(* A category create that got as far as create_user_category has been answered *)
CreateAnswered(r) == r.op = "post_category" /\ "name" \in DOMAIN r.req

SystemKey(name) == \E sc \in system_categories : sc.name = name
Holds(UC, u, name) == \E c \in UC : c.user_id = u /\ c.name = name

(* C17: a create whose key is held by another user, by no system category
   and not by the caller succeeds, and then both users hold the key. *)
C17_PerUserNamespace ==
    [][ (/\ CreateAnswered(resp')
         /\ ~SystemKey(resp'.req.name)
         /\ ~Holds(user_categories, resp'.user, resp'.req.name)
         /\ \E c \in user_categories : c.user_id # resp'.user /\ c.name = resp'.req.name) =>
            /\ resp'.status = 201
            /\ Holds(user_categories', resp'.user, resp'.req.name)
            /\ \E c \in user_categories' : c.user_id # resp'.user /\ c.name = resp'.req.name
      ]_vars

(* A user was given a category whose key another user holds as well. *)
C17_Witness ==
    /\ CreateAnswered(resp)
    /\ resp.status = 201
    /\ \E c \in user_categories : c.user_id # resp.user /\ c.name = resp.req.name

(* C18: a create whose key is a system key or a key the caller holds is
   turned down and the user categories are as before. *)
C18_CollisionRejected ==
    [][ (/\ CreateAnswered(resp')
         /\ \/ SystemKey(resp'.req.name)
            \/ Holds(user_categories, resp'.user, resp'.req.name)) =>
            /\ resp'.status = 409
            /\ user_categories' = user_categories ]_vars

(* A create of a system key was turned down while user categories exist. *)
C18_Witness ==
    /\ CreateAnswered(resp)
    /\ SystemKey(resp.req.name)
    /\ resp.status = 409
    /\ user_categories # {}

(* C19: a refused create names its cause: the system-category message exactly
   when the key is a system key, else the own-category cause (the pre-check's
   message or the store's violation) and the caller holds the key; both are
   answered as the same name conflict. *)
C19_FailureKinds ==
    (CreateAnswered(resp) /\ resp.status # 201) =>
        /\ resp.status = 409
        /\ resp.raised \in {system_category_error, "User already has category",
                            UniqueViolation}
        /\ resp.raised = system_category_error <=> SystemKey(resp.req.name)
        /\ resp.raised # system_category_error =>
               Holds(user_categories, resp.user, resp.req.name)
        /\ [status |-> resp.status, body |-> resp.body]
               = ConflictResponse(resp.req.display_name)

(* A create was refused by the pre-check on the caller's own categories. *)
C19_Witness ==
    /\ CreateAnswered(resp)
    /\ resp.raised = "User already has category"
    /\ Holds(user_categories, resp.user, resp.req.name)

(* trim, uppercase, each space to underscore *)
Canonical(s) == ReplaceSpace(UpperChars(StripChars(s)))

(* Two display names that differ in letter case and surrounding whitespace only *)
SameButCase(a, b) == UpperChars(StripChars(a)) = UpperChars(StripChars(b))

(* C20: the key of a create is a fixed point of canonicalization, and a
   create whose display name differs only in case or surrounding whitespace
   from one the caller holds has the same key and is turned down as a
   conflict. *)
C20_Canonical ==
    [][ CreateAnswered(resp') =>
            /\ Canonical(resp'.req.name) = resp'.req.name
            /\ Canonical(resp'.req.display_name) = resp'.req.name
            /\ \A c \in user_categories :
                   (c.user_id = resp'.user
                    /\ SameButCase(c.display_name, resp'.req.display_name)) =>
                       /\ c.name = resp'.req.name
                       /\ resp'.status = 409
                       /\ user_categories' = user_categories ]_vars

(* "coffee shop" was refused to a user who holds "Coffee Shop". *)
C20_Witness ==
    /\ CreateAnswered(resp)
    /\ resp.status = 409
    /\ resp.req.display_name = <<"c", "o", "f", "f", "e", "e", " ", "s", "h", "o", "p">>
    /\ \E c \in user_categories :
           /\ c.user_id = resp.user
           /\ c.display_name = <<"C", "o", "f", "f", "e", "e", " ", "S", "h", "o", "p">>
           /\ c.name = <<"C", "O", "F", "F", "E", "E", "_", "S", "H", "O", "P">>

----------------------------------------------------------------------------
(* The category namespace: validation *)

(* A display name that, trimmed, is empty, longer than 100 characters or holds
   a character that is no letter, digit or space *)
InvalidName(raw) ==
    LET t == StripChars(raw)
    IN  \/ Len(t) = 0
        \/ Len(t) > MaxNameLength
        \/ \E i \in 1..Len(t) : t[i] \notin Range(LOWER) \cup Range(UPPER) \cup DIGITS \cup {" "}

RawName(data) == IF "display_name" \in DOMAIN data THEN Val(data.display_name) ELSE <<>>

(* C21: a create is refused with 400, before the store is read and with
   nothing changed, exactly when its trimmed display name is empty, longer
   than 100 characters or holds a character other than a letter, a digit or
   a space; every other name goes on to the collision check. *)
C21_NameValidation ==
    [][ /\ (resp'.op = "post_category" /\ ~CreateAnswered(resp')) =>
               /\ InvalidName(RawName(resp'.req))
               /\ resp'.status = 400
               /\ resp'.raised = ""
               /\ UNCHANGED <<user_categories, next_category_id, pc, job>>
        /\ CreateAnswered(resp') => ~InvalidName(resp'.req.display_name)
        /\ \A w \in Workers :
               (pc[w] = "idle" /\ pc'[w] = "user_exists") =>
                   ~InvalidName(job'[w].display_name) ]_vars

(* A name of 101 characters was refused while a category with a name of 100
   characters is stored. *)
C21_Witness ==
    /\ resp.op = "post_category"
    /\ resp.status = 400
    /\ Len(RawName(resp.req)) = MaxNameLength + 1
    /\ \E c \in user_categories : Len(c.display_name) = MaxNameLength

(* C22: the combined listing of a user is one sequence in non-decreasing
   display-name order holding exactly the display names of the system
   categories and of that user's categories. *)
C22_ListCombined ==
    resp.op = "get_categories" =>
        /\ resp.status = 200
        /\ \A i, j \in DOMAIN resp.body.categories :
               i < j => NameLeq(resp.body.categories[i], resp.body.categories[j])
        /\ Range(resp.body.categories)
               = { c.display_name : c \in system_categories }
                     \cup { c.display_name : c \in { d \in user_categories :
                                                       d.user_id = resp.user } }
        /\ Len(resp.body.categories)
               = Cardinality(system_categories)
                     + Cardinality({ d \in user_categories : d.user_id = resp.user })

(* C23: a category delete removes the category and answers success when the
   caller owns a category of that id; when not, it answers not-found, not an
   error, and every category is as before. *)
C23_CategoryDelete ==
    [][ resp'.op = "delete_category" =>
            LET owned == { c \in user_categories :
                             c.id = resp'.id /\ c.user_id = resp'.user }
            IN  /\ owned # {} => /\ resp'.status = 200
                                 /\ user_categories' = user_categories \ owned
                /\ owned = {} => /\ resp'.status = 404
                                 /\ resp'.raised = ""
                                 /\ user_categories' = user_categories ]_vars

----------------------------------------------------------------------------
(* Transactions and the categories they name *)

(* C24: the delete of an owned category succeeds whether or not transactions
   name it, and leaves every transaction as it was, the ones that name the
   category included. *)
C24_NoCascade ==
    [][ (/\ resp'.op = "delete_category"
         /\ \E c \in user_categories : c.id = resp'.id /\ c.user_id = resp'.user) =>
            /\ resp'.status = 200
            /\ \A c \in user_categories' : c.id # resp'.id
            /\ expenses' = expenses ]_vars

(* A user deleted a category that a transaction of theirs names; the
   transaction still names it. *)
C24_Witness ==
    /\ resp.op = "delete_category"
    /\ resp.status = 200
    /\ \E e \in expenses : e.user_id = resp.user /\ e.user_category_id = Some(resp.id)

(* The category ids a request body names that no category has *)
Dangling(UC, data) ==
    \/ /\ TruthyInt(Get(data, "system_category_id"))
       /\ \A c \in system_categories : Some(c.id) # data.system_category_id
    \/ /\ TruthyInt(Get(data, "user_category_id"))
       /\ \A c \in UC : Some(c.id) # data.user_category_id

(* C26: a create that names a category that does not exist is refused and
   stores nothing, and every transaction is of an existing user. *)
C26_ForeignKeys ==
    [][ /\ (resp'.op = "create" /\ Dangling(user_categories, resp'.req)) =>
               /\ resp'.status = 400
               /\ expenses' = expenses
        /\ \A e \in expenses' : e.user_id \in Users ]_vars

(* C29: the user category a transaction names is a category of the
   transaction's user, and no create or get returns the display name of
   another user's category. *)
C29_OwnCategoryOnly ==
    /\ \A e \in expenses, c \in user_categories :
           e.user_category_id = Some(c.id) => c.user_id = e.user_id
    /\ (resp.op \in {"create", "get"} /\ resp.status \in {200, 201}) =>
           \A e \in resp.body.expense :
               e.user_category_name \subseteq
                   { c.display_name : c \in { d \in user_categories :
                                                d.user_id = resp.user } }

(* A request body with an amount that is not positive, a kind that is neither
   expense nor income, or a date that is not YYYY-MM-DD *)
OutOfDomain(data) ==
    \/ Get(data, "amount") # None /\ Val(Get(data, "amount")) <= 0
    \/ Get(data, "type") # None /\ Val(Get(data, "type")) \notin {"expense", "income"}
    \/ Get(data, "date") # None /\ ~DateShaped(Val(Get(data, "date")))

(* C28: an update with a value outside its domain is refused as invalid input
   before the store is called, and no stored transaction has a kind other
   than expense or income or a malformed date. *)
C28_UpdateDomain ==
    [][ /\ (/\ resp'.op = "update"
             /\ OutOfDomain(resp'.req)
             /\ Owned(expenses, resp'.id, resp'.user)) =>
               /\ resp'.status = 400
               /\ resp'.raised = ""
               /\ expenses' = expenses
        /\ \A e \in expenses' : e.type \in {"expense", "income"} /\ DateShaped(e.date) ]_vars

(* C25: a list call runs with page max(1, page) and per_page
   min(100, max(1, per_page)) and returns no more items than that. *)
C25_Clamp ==
    (resp.op = "list" /\ resp.status # 400) =>
        LET page == ArgInt(resp.req, "page", DefaultPage)
            per_page == ArgInt(resp.req, "per_page", DefaultPerPage)
        IN  /\ resp.status = 200
            /\ resp.body.pagination.page = IF page < 1 THEN 1 ELSE page
            /\ resp.body.pagination.per_page =
                   IF per_page < 1 THEN 1 ELSE IF per_page > 100 THEN 100 ELSE per_page
            /\ Len(resp.body.expenses) <= resp.body.pagination.per_page

(* C27: once an operation has completed, on success or on failure, it holds
   no store connection: between requests no connection is open. *)
C27_NoOpenConnection ==
    (resp.op \in {"create", "delete"} /\ \A w \in Workers : pc[w] = "idle") =>
        connections = 0

====
